---- MODULE Spec2Model ----
(***************************************************************************)
(* Model of the link router bot (src/bot.js): the destination registry     *)
(* (ensureChannel), the backfill scanner (backfillGuild), the ready        *)
(* handler, the live messageCreate handler and the thread consolidator     *)
(* (getOrCreateLatestThread).                                              *)
(*                                                                         *)
(* JavaScript runs one task at a time and switches tasks only at an        *)
(* await.  Every action below is therefore "the awaited platform call      *)
(* completes (it succeeds or it throws) and the task runs on to its next   *)
(* await or to its end".  The platform (rooms, messages, threads) is       *)
(* shared state that the tasks change only through those calls.            *)
(***************************************************************************)
EXTENDS Integers, Sequences, FiniteSets, TLC

VARIABLES
    config,               \* what the process starts from: env ids, guilds the bot is in
    channels,             \* platform: the rooms that exist (guild.channels.cache of all guilds)
    present,              \* platform: user/bot messages that exist, by id
    feed,                 \* platform: per room, the messages the engine sent, oldest first
    threads,              \* platform: the threads, a thread handle is its index
    envId,                \* YOUTUBE_CHANNEL_ID / STEAM_CHANNEL_ID / LINKS_CHANNEL_ID
    destinationChannels,  \* the destination channel cache (category -> room)
    ready,                \* the ready handler's task (ensureChannel, backfillGuild)
    live,                 \* one messageCreate handler task per delivered message
    run,                  \* which run of the process this is
    hist                  \* history variables, read by the properties only

vars == <<config, channels, present, feed, threads, envId, destinationChannels,
          ready, live, run, hist>>

\* ------------------------------------------------------------------ bounds
\* messages per history page (100 in the source, scaled)
PageLimit == 2
\* window of getOrCreateLatestThread's fetch (50 in the source, scaled)
RecentLimit == 3
\* number of times the process is started
MaxRuns == 2

\* ------------------------------------------------------- program constants
\* null / '' : no channel, no id, no thread
NULL == 0
\* Backfill cutoff on the model's time line; a message's time is its id
BACKFILL_AFTER == 2

Categories == {"youtube", "steam", "other"}

\* CATEGORIES[category].channelName, a name being a sequence of parts
ChannelName(category) ==
    CASE category = "youtube" -> <<"youtube">>
      [] category = "steam"   -> <<"games">>
      [] OTHER                -> <<"links-channel">>

\* ------------------------------------------------------------ the platform
\* Rooms are numbered guild*10 + k.
GuildOf(room) == room \div 10
RoomNames == <<
    <<"general">>,            \* k = 0  an ordinary room
    <<"staff", "-private">>,  \* k = 1  a room whose name carries the private marker
    <<"youtube">>,            \* k = 2
    <<"games">>,              \* k = 3
    <<"links-channel">>       \* k = 4
  >>
RoomName(room) == RoomNames[(room % 10) + 1]
RoomIds == {g * 10 + k : g \in 1..2, k \in 0..4}
BaseRooms(gs) == {g * 10 + k : g \in gs, k \in 0..1}
DestRooms(gs) == {g * 10 + k : g \in gs, k \in 2..4}

\* channel.name.includes('-private')
IsPrivateName(name) == \E i \in 1..Len(name) : name[i] = "-private"

\* URLs.  A URL is its host, as a sequence of labels.
YT1 == [url |-> TRUE, host |-> <<"youtu", "be">>, n |-> 1]
YT2 == [url |-> TRUE, host |-> <<"www", "youtube", "com">>, n |-> 2]
ST1 == [url |-> TRUE, host |-> <<"store", "steampowered", "com">>, n |-> 3]
ST2 == [url |-> TRUE, host |-> <<"store", "steampowered", "com">>, n |-> 5]
OT1 == [url |-> TRUE, host |-> <<"example", "org">>, n |-> 4]
WORD == [url |-> FALSE, host |-> <<>>, n |-> 0]

\* The messages users and other bots post.  A message's id is its position
\* here and ids grow with time (snowflakes), so createdAt is the id.
Messages == <<
    [room |-> 10, bot |-> FALSE, where |-> "room",   content |-> <<WORD, YT1>>],
    [room |-> 10, bot |-> FALSE, where |-> "room",   content |-> <<YT1, ST1, WORD, YT2>>],
    [room |-> 10, bot |-> TRUE,  where |-> "room",   content |-> <<OT1>>],
    [room |-> 10, bot |-> FALSE, where |-> "room",   content |-> <<YT2>>],
    [room |-> 11, bot |-> FALSE, where |-> "room",   content |-> <<OT1>>],
    [room |-> 20, bot |-> FALSE, where |-> "room",   content |-> <<ST1>>],
    [room |-> 10, bot |-> FALSE, where |-> "room",   content |-> <<ST2, OT1, WORD, ST1>>],
    [room |-> 12, bot |-> FALSE, where |-> "room",   content |-> <<YT2>>],
    [room |-> 12, bot |-> FALSE, where |-> "room",   content |-> <<WORD>>],
    [room |-> 11, bot |-> FALSE, where |-> "room",   content |-> <<WORD, YT1>>],
    [room |-> 10, bot |-> FALSE, where |-> "thread", content |-> <<YT1>>],
    [room |-> 10, bot |-> FALSE, where |-> "dm",     content |-> <<YT1>>],
    [room |-> 10, bot |-> TRUE,  where |-> "room",   content |-> <<YT1>>],
    [room |-> 10, bot |-> FALSE, where |-> "room",   content |-> <<WORD>>],
    [room |-> 13, bot |-> FALSE, where |-> "room",   content |-> <<WORD>>]
  >>
MsgIds == 1..Len(Messages)
Msg(m) == Messages[m]
CreatedAt(m) == m

\* ------------------------------------------------------------------ helpers
\* YOUTUBE_REGEX: an optional www., then youtube.com, youtu.be or m.youtube.com
HasPrefix(s, p) == Len(s) >= Len(p) /\ SubSeq(s, 1, Len(p)) = p
NoWww(host) == IF Len(host) > 0 /\ host[1] = "www" THEN Tail(host) ELSE host
YOUTUBE_REGEX(url) ==
    \E p \in {<<"youtube", "com">>, <<"youtu", "be">>, <<"m", "youtube", "com">>} :
        HasPrefix(NoWww(url.host), p)
STEAM_REGEX(url) == HasPrefix(url.host, <<"store", "steampowered", "com">>)

categorizeUrl(url) ==
    IF YOUTUBE_REGEX(url) THEN "youtube"
    ELSE IF STEAM_REGEX(url) THEN "steam"
    ELSE "other"

\* content.match(URL_REGEX): the URLs of a text in order; <<>> stands for null
MatchUrls(content) == SelectSeq(content, LAMBDA tok : tok.url)

\* grouped[cat].push(url): the entries of `grouped` in insertion order
RECURSIVE GroupInto(_, _)
GroupInto(urls, grouped) ==
    IF urls = <<>> THEN grouped
    ELSE LET cat == categorizeUrl(Head(urls))
             at  == {i \in 1..Len(grouped) : grouped[i].category = cat}
         IN  IF at = {}
             THEN GroupInto(Tail(urls),
                      Append(grouped, [category |-> cat, urls |-> <<Head(urls)>>]))
             ELSE LET i == CHOOSE j \in at : TRUE
                  IN  GroupInto(Tail(urls),
                          [grouped EXCEPT ![i].urls = Append(@, Head(urls))])
GroupUrls(urls) == GroupInto(urls, <<>>)

getDestinationId(category) == envId[category]

isDestinationChannel(channelId) ==
    \E c \in Categories : envId[c] = channelId

\* The sorted sequence of a finite set of numbers, ascending.
RECURSIVE Ascending(_)
Ascending(S) ==
    IF S = {} THEN <<>>
    ELSE LET x == CHOOSE y \in S : \A z \in S : y <= z
         IN  <<x>> \o Ascending(S \ {x})
RECURSIVE Descending(_)
Descending(S) ==
    IF S = {} THEN <<>>
    ELSE LET x == CHOOSE y \in S : \A z \in S : y >= z
         IN  <<x>> \o Descending(S \ {x})
FirstN(s, n) == SubSeq(s, 1, IF Len(s) < n THEN Len(s) ELSE n)

\* buildLinkEmbed + send: the message the engine posts in a destination room
Embed(category, urls, m, by) ==
    [kind |-> "embed", category |-> category, urls |-> urls, dests |-> <<>>,
     src |-> m, by |-> by, run |-> run]
\* a plain notice or warning of the engine; dests are the rooms it names
Notice(m, dests) ==
    [kind |-> "notice", category |-> "none", urls |-> <<>>, dests |-> dests,
     src |-> m, by |-> "live", run |-> run]

\* ------------------------------------------------------------- initial state
ReadyInit ==
    [pc |-> "init", guilds |-> <<>>, cat |-> "none", room |-> NULL,
     how |-> "none", byId |-> NULL, byName |-> NULL,
     chans |-> <<>>, lastId |-> NULL, page |-> <<>>, idx |-> 0,
     entries |-> <<>>, category |-> "none", urls |-> <<>>, dest |-> NULL,
     moved |-> FALSE, reached |-> FALSE]

LiveInit ==
    [pc |-> "new", todo |-> <<>>, routed |-> <<>>, category |-> "none",
     urls |-> <<>>, dest |-> NULL, anchor |-> 0, thr |-> NULL,
     resolved |-> TRUE, home |-> FALSE, seen |-> 0, archived |-> FALSE,
     stale |-> FALSE]

HistInit ==
    [resolved |-> [g \in 1..2 |-> [c \in Categories |-> NULL]],
     paged |-> {}, repaged |-> FALSE, deleted |-> {}, undeleted |-> {},
     ensured |-> {}, created |-> [r \in RoomIds |-> 0]]

NoEnv == [c \in Categories |-> NULL]

\* The state after the module is loaded and before the client is ready:
\* `gs` the guilds the bot is in, `env` the ids of .env.local, `rooms` the
\* rooms that exist, `old` the messages posted while the bot was away,
\* `new` the messages that will arrive, `prior` what an earlier process left
\* in the destination rooms.
InitWith(gs, env, rooms, old, new, prior, thr) ==
    /\ config = [env |-> env, guilds |-> gs]
    /\ channels = rooms
    /\ present = old
    /\ feed = [r \in RoomIds |-> IF r \in DOMAIN prior THEN prior[r] ELSE <<>>]
    /\ threads = thr
    /\ envId = env
    /\ destinationChannels = [c \in Categories |-> NULL]
    /\ ready = ReadyInit
    /\ live = [m \in new |-> LiveInit]
    /\ run = 1
    /\ hist = HistInit

\* ------------------------------------------------- ready handler: registry
GuildChannels(g) == {ch \in channels : GuildOf(ch) = g}
\* the room guild.channels.create makes for a category
NewRoom(g, category) ==
    CHOOSE r \in RoomIds : GuildOf(r) = g /\ RoomName(r) = ChannelName(category)

NextCategory(category) ==
    CASE category = "youtube" -> "steam"
      [] category = "steam"   -> "other"
      [] OTHER                -> "none"

\* updateEnvId
updateEnvId(ids, category, id) == [ids EXCEPT ![category] = id]

\* guild.channels.cache.get(envId) under "envId && envId.length > 10" (every
\* id of the model is longer than 10 characters, so the test is "id # NULL"):
\* the configured id when it is a room of this guild
ById(g, category) ==
    LET id == getDestinationId(category)
    IN  IF id # NULL /\ id \in GuildChannels(g) THEN id ELSE NULL

\* the lookup without its search by name
ByNameNever(g, category) == NULL

\* guild.channels.cache.find(name is the preferred name, type is text): the
\* first such room of the guild
ByName(g, category) ==
    LET byName == {ch \in GuildChannels(g) : RoomName(ch) = ChannelName(category)}
    IN  IF byName = {} THEN NULL
        ELSE CHOOSE ch \in byName : \A o \in byName : ch <= o

\* ensureChannel, its lookup: the room a category resolves to without
\* creating one (the configured id, else a text room of the preferred name),
\* NULL when the room has to be created.
LookupChannel(g, category) ==
    IF ById(g, category) # NULL THEN ById(g, category) ELSE ByName(g, category)

\* ensureChannel up to its first await: the binding is written before the
\* permissions are set; the id is recorded only when the room was found by name.
EnsureBegin(r, g, category) ==
    LET existing == ById(g, category)
        found    == LookupChannel(g, category)
        seen     == [r EXCEPT !.cat = category, !.byId = existing,
                              !.byName = ByName(g, category)]
    IN  IF found # NULL
        THEN /\ destinationChannels' = [destinationChannels EXCEPT ![category] = found]
             /\ envId' = IF existing # NULL
                         THEN envId ELSE updateEnvId(envId, category, found)
             /\ ready' = [seen EXCEPT !.pc = "perm", !.room = found,
                                      !.how = IF existing # NULL THEN "id" ELSE "name"]
        ELSE /\ UNCHANGED <<destinationChannels, envId>>
             /\ ready' = [seen EXCEPT !.pc = "create", !.room = NULL,
                                      !.how = "create"]

\* ------------------------------------------------- ready handler: backfill
\* channel.messages.fetch({limit, before}): newest first.  The pages hold the
\* top-level messages of users and other bots (a message posted inside a
\* thread belongs to the thread, not to the room); the engine's own
\* short-lived notices in an ordinary room are left out (the scanner skips
\* them as bot messages).
Fetch(channel, before) ==
    FirstN(Descending({m \in present : /\ Msg(m).room = channel
                                        /\ Msg(m).where = "room"
                                        /\ (before = NULL \/ m < before)}),
           PageLimit)

\* the scan without its cutoff test
BeforeCutoffNever(m) == FALSE

\* msg.createdAt < BACKFILL_AFTER
BeforeCutoff(m) == CreatedAt(m) < BACKFILL_AFTER

\* the cursor taken from the newest message of the page
NextCursorFirst(page) == page[1]

\* lastId = messages.last()?.id : the oldest message of the page
NextCursor(page) == page[Len(page)]

\* The body of the page loop from message i on, up to the next await: the
\* cutoff test, the skips, the grouping, and per group the binding test.
\* phase "msg" is the top of the loop body, "cat" the loop over the groups.
RECURSIVE BfRun(_, _, _, _, _, _)
BfRun(channel, page, i, phase, entries, moved) ==
    LET stop(pc, reached) ==
            [pc |-> pc, idx |-> i, entries |-> <<>>, category |-> "none",
             urls |-> <<>>, dest |-> NULL, moved |-> moved, reached |-> reached]
    IN
    IF phase = "msg"
    THEN IF i > Len(page) THEN stop("bf_sleep", FALSE)
         ELSE IF BeforeCutoff(page[i]) THEN stop("bf_sleep", TRUE)
         ELSE IF Msg(page[i]).bot THEN BfRun(channel, page, i + 1, "msg", <<>>, FALSE)
         ELSE IF MatchUrls(Msg(page[i]).content) = <<>>
              THEN BfRun(channel, page, i + 1, "msg", <<>>, FALSE)
         ELSE BfRun(channel, page, i, "cat",
                    GroupUrls(MatchUrls(Msg(page[i]).content)), FALSE)
    ELSE IF entries = <<>>
         THEN IF moved THEN stop("bf_delete", FALSE)
              ELSE BfRun(channel, page, i + 1, "msg", <<>>, FALSE)
         ELSE LET destChannel == destinationChannels[Head(entries).category]
              IN  IF destChannel = NULL \/ destChannel = channel
                  THEN BfRun(channel, page, i, "cat", Tail(entries), moved)
                  ELSE [pc |-> "bf_send", idx |-> i, entries |-> Tail(entries),
                        category |-> Head(entries).category,
                        urls |-> Head(entries).urls, dest |-> destChannel,
                        moved |-> moved, reached |-> FALSE]

\* the scanner's task after running on
BfResume(r, channel, page, i, phase, entries, moved) ==
    LET n == BfRun(channel, page, i, phase, entries, moved)
    IN  [r EXCEPT !.pc = n.pc, !.page = page, !.idx = n.idx,
                  !.entries = n.entries, !.category = n.category,
                  !.urls = n.urls, !.dest = n.dest, !.moved = n.moved,
                  !.reached = n.reached,
                  !.lastId = IF n.pc = "bf_sleep" THEN NextCursor(page) ELSE @]

\* the filter without its destination test
TextChannelsAll(g) == Ascending(GuildChannels(g))

\* the text channels backfillGuild scans, in cache order; every room of the
\* model is a text room in which the engine may view, read and manage
TextChannels(g) ==
    Ascending({ch \in GuildChannels(g) : ~isDestinationChannel(ch)})

\* the room loop without its test of the name
SkipsRoomNever(channel) == FALSE

\* if (channel.name.includes('-private')) continue;
SkipsRoom(channel) == IsPrivateName(RoomName(channel))

RECURSIVE SkipPrivate(_)
SkipPrivate(chans) ==
    IF chans = <<>> THEN <<>>
    ELSE IF SkipsRoom(Head(chans)) THEN SkipPrivate(Tail(chans))
    ELSE chans

\* The room loop: go to the next room that is not private and fetch its
\* first page; after the last room backfillGuild returns and the ready
\* handler goes on with the next guild.
ScanFrom(r, chans) ==
    LET rest  == SkipPrivate(chans)
        clean == [r EXCEPT !.cat = "none", !.room = NULL, !.how = "none",
                           !.byId = NULL, !.byName = NULL, !.chans = rest,
                           !.lastId = NULL, !.page = <<>>, !.idx = 0,
                           !.entries = <<>>, !.category = "none", !.urls = <<>>,
                           !.dest = NULL, !.moved = FALSE, !.reached = FALSE]
    IN  IF rest # <<>>
        THEN /\ ready' = [clean EXCEPT !.pc = "bf_fetch"]
             /\ UNCHANGED <<destinationChannels, envId>>
        ELSE IF Len(r.guilds) > 1
        THEN EnsureBegin([clean EXCEPT !.guilds = Tail(r.guilds)],
                         r.guilds[2], "youtube")
        ELSE /\ ready' = [clean EXCEPT !.pc = "done", !.guilds = <<>>]
             /\ UNCHANGED <<destinationChannels, envId>>

\* client.once('ready'): the first guild's first ensureChannel
ReadyStart ==
    /\ ready.pc = "init"
    /\ IF config.guilds = <<>>
       THEN /\ ready' = [ready EXCEPT !.pc = "done"]
            /\ UNCHANGED <<destinationChannels, envId>>
       ELSE EnsureBegin([ready EXCEPT !.guilds = config.guilds],
                        config.guilds[1], "youtube")
    /\ UNCHANGED <<config, channels, present, feed, threads, live, run, hist>>

\* guild.channels.create completes; a throw ends the ready handler
EnsureCreate ==
    /\ ready.pc = "create"
    /\ \E ok \in BOOLEAN :
        IF ok
        THEN LET created == NewRoom(Head(ready.guilds), ready.cat)
             IN  /\ channels' = channels \cup {created}
                 /\ destinationChannels' =
                        [destinationChannels EXCEPT ![ready.cat] = created]
                 /\ envId' = updateEnvId(envId, ready.cat, created)
                 /\ ready' = [ready EXCEPT !.pc = "perm", !.room = created]
                 /\ hist' = [hist EXCEPT !.created[created] = @ + 1]
        ELSE /\ ready' = [ready EXCEPT !.pc = "crashed"]
             /\ UNCHANGED <<channels, destinationChannels, envId, hist>>
    /\ UNCHANGED <<config, present, feed, threads, live, run>>

\* enforceStrictPermissions completes (it never throws) and ensureChannel
\* returns: the next category, or backfillGuild up to its first fetch
EnsurePerm ==
    /\ ready.pc = "perm"
    /\ hist' = [hist EXCEPT
           !.resolved[Head(ready.guilds)][ready.cat] = ready.room,
           !.ensured = @ \cup {[guild |-> Head(ready.guilds), category |-> ready.cat,
                                how |-> ready.how, room |-> ready.room,
                                byId |-> ready.byId, byName |-> ready.byName,
                                run |-> run]}]
    /\ IF NextCategory(ready.cat) # "none"
       THEN EnsureBegin(ready, Head(ready.guilds), NextCategory(ready.cat))
       ELSE ScanFrom(ready, TextChannels(Head(ready.guilds)))
    /\ UNCHANGED <<config, channels, present, feed, threads, live, run>>

\* channel.messages.fetch completes: a throw or an empty page ends the room
BfFetchDone ==
    /\ ready.pc = "bf_fetch"
    /\ \E ok \in BOOLEAN :
        LET channel == Head(ready.chans)
            page    == Fetch(channel, ready.lastId)
        IN  IF ok /\ page # <<>>
            THEN /\ ready' = BfResume(ready, channel, page, 1, "msg", <<>>, FALSE)
                 /\ hist' = [hist EXCEPT
                        !.paged = @ \cup {page[i] : i \in 1..Len(page)},
                        !.repaged = @ \/ \E i \in 1..Len(page) : page[i] \in hist.paged]
                 /\ UNCHANGED <<destinationChannels, envId>>
            ELSE /\ ScanFrom(ready, Tail(ready.chans))
                 /\ UNCHANGED hist
    /\ UNCHANGED <<config, channels, present, feed, threads, live, run>>

\* destChannel.send completes; a throw is not caught and ends the ready handler
BfSendDone ==
    /\ ready.pc = "bf_send"
    /\ \E ok \in BOOLEAN :
        IF ok
        THEN /\ feed' = [feed EXCEPT ![ready.dest] =
                    Append(@, Embed(ready.category, ready.urls,
                                    ready.page[ready.idx], "backfill"))]
             /\ ready' = BfResume(ready, Head(ready.chans), ready.page, ready.idx,
                                  "cat", ready.entries, TRUE)
        ELSE /\ ready' = [ready EXCEPT !.pc = "crashed"]
             /\ UNCHANGED feed
    /\ UNCHANGED <<config, channels, present, threads, envId,
                   destinationChannels, live, run, hist>>

\* msg.delete completes; a throw is caught and the scan goes on
BfDeleteDone ==
    /\ ready.pc = "bf_delete"
    /\ LET msg == ready.page[ready.idx]
       IN  /\ \E ok \in BOOLEAN :
                IF ok /\ msg \in present
                THEN /\ present' = present \ {msg}
                     /\ hist' = [hist EXCEPT !.deleted = @ \cup {<<msg, "backfill", run>>}]
                ELSE /\ UNCHANGED present
                     /\ hist' = [hist EXCEPT !.undeleted = @ \cup {<<msg, "backfill", run>>}]
           /\ ready' = BfResume(ready, Head(ready.chans), ready.page,
                                ready.idx + 1, "msg", <<>>, FALSE)
    /\ UNCHANGED <<config, channels, feed, threads, envId,
                   destinationChannels, live, run>>

\* the pause between pages ends: the next page, or the next room at the cutoff
BfSleepDone ==
    /\ ready.pc = "bf_sleep"
    /\ IF ready.reached
       THEN ScanFrom(ready, Tail(ready.chans))
       ELSE /\ ready' = [ready EXCEPT !.pc = "bf_fetch", !.page = <<>>, !.idx = 0]
            /\ UNCHANGED <<destinationChannels, envId>>
    /\ UNCHANGED <<config, channels, present, feed, threads, live, run, hist>>

ReadyNext ==
    \/ ReadyStart
    \/ EnsureCreate
    \/ EnsurePerm
    \/ BfFetchDone
    \/ BfSendDone
    \/ BfDeleteDone
    \/ BfSleepDone

\* ------------------------------------------------------ live message handler
\* The routing loop from the groups `todo` on, up to the next await: a group
\* whose binding is null is logged and skipped; after the last group the
\* handler returns when nothing was routed and deletes the original otherwise.
\* the original is never deleted
AfterGroupsNoDelete(routed) == IF routed = <<>> THEN "ignored" ELSE "notice"

\* if (routed.length === 0) return; else message.delete()
AfterGroups(routed) == IF routed = <<>> THEN "ignored" ELSE "delete"

RECURSIVE RouteRun(_, _)
RouteRun(todo, routed) ==
    IF todo = <<>>
    THEN [pc |-> AfterGroups(routed), todo |-> <<>>,
          category |-> "none", urls |-> <<>>, dest |-> NULL]
    ELSE LET destChannel == destinationChannels[Head(todo).category]
         IN  IF destChannel = NULL THEN RouteRun(Tail(todo), routed)
             ELSE [pc |-> "send", todo |-> Tail(todo),
                   category |-> Head(todo).category, urls |-> Head(todo).urls,
                   dest |-> destChannel]

RouteResume(h, todo, routed) ==
    LET n == RouteRun(todo, routed)
    IN  [h EXCEPT !.pc = n.pc, !.todo = n.todo, !.routed = routed,
                  !.category = n.category, !.urls = n.urls, !.dest = n.dest]

\* only the first group is routed
ToRouteFirst(grouped, currentChannelId) == FirstN(grouped, 1)

\* toRoute: the groups whose destination id is not the current room
ToRoute(grouped, currentChannelId) ==
    SelectSeq(grouped, LAMBDA e : getDestinationId(e.category) # currentChannelId)

\* the handler that lets through everything but bot messages
IgnoredBotsOnly(msg) == msg.bot

\* the ignore rules: a bot's message, a direct message (no guild), a message
\* inside a thread
Ignored(msg) == msg.bot \/ msg.where = "dm" \/ msg.where = "thread"

\* The handler from the event to its first await.  "ignored" is a return
\* before any platform call.
HandlerStart(h, m) ==
    LET msg     == Msg(m)
        allUrls == MatchUrls(msg.content)
        toRoute == ToRoute(GroupUrls(allUrls), msg.room)
    IN  IF Ignored(msg)
        THEN [h EXCEPT !.pc = "ignored"]
        ELSE IF isDestinationChannel(msg.room) THEN [h EXCEPT !.pc = "s_delete"]
        ELSE IF allUrls = <<>> THEN [h EXCEPT !.pc = "ignored"]
        ELSE IF IsPrivateName(RoomName(msg.room)) THEN [h EXCEPT !.pc = "p_delete"]
        ELSE IF toRoute = <<>> THEN [h EXCEPT !.pc = "ignored"]
        ELSE RouteResume(h, toRoute, <<>>)

\* a user posts message m and the gateway delivers messageCreate
MessageCreate(m) ==
    /\ live[m].pc = "new"
    /\ ready.pc # "init"
    /\ Msg(m).where = "dm" \/ Msg(m).room \in channels
    /\ LET msg     == Msg(m)
           allUrls == MatchUrls(msg.content)
           seen    == [live[m] EXCEPT
                !.resolved = \A c \in Categories :
                                 hist.resolved[GuildOf(msg.room)][c] # NULL,
                !.home = /\ ~msg.bot /\ msg.where = "room" /\ allUrls # <<>>
                         /\ \A i \in 1..Len(allUrls) :
                              getDestinationId(categorizeUrl(allUrls[i])) = msg.room]
       IN  /\ live' = [live EXCEPT ![m] = HandlerStart(seen, m)]
           /\ present' = IF msg.where \in {"room", "thread"}
                          THEN present \cup {m} ELSE present
    /\ UNCHANGED <<config, channels, feed, threads, envId, destinationChannels,
                   ready, run, hist>>

\* the throw of send caught by the try around the delete
SendThrewCaught(h) == [h EXCEPT !.pc = "delete"]

\* await destChannel.send throws outside any try: the handler ends there
SendThrew(h) == [h EXCEPT !.pc = "failed"]

\* destChannel.send completes; a throw is not caught and ends the handler
LiveSendDone(m) ==
    /\ live[m].pc = "send"
    /\ \E ok \in BOOLEAN :
        IF ok
        THEN /\ feed' = [feed EXCEPT ![live[m].dest] =
                    Append(@, Embed(live[m].category, live[m].urls, m, "live"))]
             /\ live' = [live EXCEPT ![m] =
                    RouteResume(live[m], live[m].todo,
                        Append(live[m].routed,
                               [category |-> live[m].category, destId |-> live[m].dest]))]
        ELSE /\ live' = [live EXCEPT ![m] = SendThrew(@)]
             /\ UNCHANGED feed
    /\ UNCHANGED <<config, channels, present, threads, envId,
                   destinationChannels, ready, run, hist>>

\* message.delete completes; a throw skips the notice
LiveDeleteDone(m) ==
    /\ live[m].pc = "delete"
    /\ \E ok \in BOOLEAN :
        IF ok /\ m \in present
        THEN /\ present' = present \ {m}
             /\ hist' = [hist EXCEPT !.deleted = @ \cup {<<m, "live", run>>}]
             /\ live' = [live EXCEPT ![m].pc = "notice"]
        ELSE /\ UNCHANGED present
             /\ hist' = [hist EXCEPT !.undeleted = @ \cup {<<m, "live", run>>}]
             /\ live' = [live EXCEPT ![m].pc = "done"]
    /\ UNCHANGED <<config, channels, feed, threads, envId, destinationChannels,
                   ready, run>>

\* the consolidated notice is sent (or the send throws, which is caught)
LiveNoticeDone(m) ==
    /\ live[m].pc = "notice"
    /\ \E ok \in BOOLEAN :
        feed' = IF ok
                THEN [feed EXCEPT ![Msg(m).room] = Append(@,
                        Notice(m, [i \in 1..Len(live[m].routed) |->
                                       live[m].routed[i].destId]))]
                ELSE feed
    /\ live' = [live EXCEPT ![m].pc = "done"]
    /\ UNCHANGED <<config, channels, present, threads, envId,
                   destinationChannels, ready, run, hist>>

RouterNext ==
    \/ \E m \in DOMAIN live : MessageCreate(m)
    \/ \E m \in DOMAIN live : LiveSendDone(m)
    \/ \E m \in DOMAIN live : LiveDeleteDone(m)
    \/ \E m \in DOMAIN live : LiveNoticeDone(m)

\* ------------------------------------------------------------- private room
PrivDeleteDone(m) ==
    /\ live[m].pc = "p_delete"
    /\ \E ok \in BOOLEAN :
        IF ok /\ m \in present
        THEN /\ present' = present \ {m}
             /\ hist' = [hist EXCEPT !.deleted = @ \cup {<<m, "private", run>>}]
             /\ live' = [live EXCEPT ![m].pc = "p_warn"]
        ELSE /\ UNCHANGED present
             /\ hist' = [hist EXCEPT !.undeleted = @ \cup {<<m, "private", run>>}]
             /\ live' = [live EXCEPT ![m].pc = "done"]
    /\ UNCHANGED <<config, channels, feed, threads, envId, destinationChannels,
                   ready, run>>

PrivWarnDone(m) ==
    /\ live[m].pc = "p_warn"
    /\ \E ok \in BOOLEAN :
        feed' = IF ok
                THEN [feed EXCEPT ![Msg(m).room] = Append(@, Notice(m, <<>>))]
                ELSE feed
    /\ live' = [live EXCEPT ![m].pc = "done"]
    /\ UNCHANGED <<config, channels, present, threads, envId,
                   destinationChannels, ready, run, hist>>

PrivateNext ==
    \/ \E m \in DOMAIN live : PrivDeleteDone(m)
    \/ \E m \in DOMAIN live : PrivWarnDone(m)

\* ------------------------------------------- strict mode, thread consolidator
\* recentMessages.find(author is the engine, has embeds): the index in the
\* room's feed of the newest embed within the fetched window, 0 if none
LatestEmbed(room) ==
    LET n      == Len(feed[room])
        window == {i \in 1..n : i > n - RecentLimit}
        embeds == {i \in window : feed[room][i].kind = "embed"}
    IN  IF embeds = {} THEN 0
        ELSE CHOOSE i \in embeds : \A j \in embeds : j <= i

\* latestEmbed.hasThread / latestEmbed.thread
ThreadOn(room, anchor) ==
    LET on == {t \in 1..Len(threads) :
                   threads[t].room = room /\ threads[t].anchor = anchor}
    IN  IF on = {} THEN NULL ELSE CHOOSE t \in on : TRUE

\* the most recent Summary Record the room holds, 0 if it holds none
LastRecord(room) ==
    LET embeds == {i \in 1..Len(feed[room]) : feed[room][i].kind = "embed"}
    IN  IF embeds = {} THEN 0
        ELSE CHOOSE i \in embeds : \A j \in embeds : j <= i

EmbedCount(room) ==
    Cardinality({i \in 1..Len(feed[room]) : feed[room][i].kind = "embed"})

\* getOrCreateLatestThread returns thread t to the strict-mode branch, which
\* goes on to thread.send
ThreadReturned(h, m, t) ==
    [h EXCEPT !.pc = "s_repost", !.thr = t,
              !.archived = threads'[t].archived,
              !.stale = (threads'[t].anchor # LastRecord(Msg(m).room))]

\* the archived thread handed out as it is
AfterThreadFetchAsIs(archived) == "return"

\* what the lookup does with the thread it fetched: hand it out when it is
\* open, un-archive it first when it is archived
AfterThreadFetch(archived) == IF archived THEN "t_unarch" ELSE "return"

\* message.delete in a destination room; a throw is caught by the branch
StrictDeleteDone(m) ==
    /\ live[m].pc = "s_delete"
    /\ \E ok \in BOOLEAN :
        IF ok /\ m \in present
        THEN /\ present' = present \ {m}
             /\ hist' = [hist EXCEPT !.deleted = @ \cup {<<m, "strict", run>>}]
             /\ live' = [live EXCEPT ![m].pc = "t_fetch"]
        ELSE /\ UNCHANGED present
             /\ hist' = [hist EXCEPT !.undeleted = @ \cup {<<m, "strict", run>>}]
             /\ live' = [live EXCEPT ![m].pc = "done"]
    /\ UNCHANGED <<config, channels, feed, threads, envId, destinationChannels,
                   ready, run>>

\* channel.messages.fetch({limit}) completes: no embed -> null, else the
\* thread of the latest embed is fetched or one is started on it
ThreadFetchRecent(m) ==
    /\ live[m].pc = "t_fetch"
    /\ \E ok \in BOOLEAN :
        LET room        == Msg(m).room
            latestEmbed == LatestEmbed(room)
        IN  live' = [live EXCEPT ![m] =
                IF ~ok THEN [@ EXCEPT !.pc = "done"]
                ELSE IF latestEmbed = 0
                THEN [@ EXCEPT !.pc = "s_warn", !.seen = EmbedCount(room)]
                ELSE [@ EXCEPT !.pc = IF ThreadOn(room, latestEmbed) # NULL
                                      THEN "t_get" ELSE "t_start",
                               !.anchor = latestEmbed,
                               !.seen = EmbedCount(room)]]
    /\ UNCHANGED <<config, channels, present, feed, threads, envId,
                   destinationChannels, ready, run, hist>>

\* latestEmbed.thread.fetch completes; a throw or no thread falls through to
\* startThread
ThreadGet(m) ==
    /\ live[m].pc = "t_get"
    /\ UNCHANGED threads
    /\ \E ok \in BOOLEAN :
        LET t == ThreadOn(Msg(m).room, live[m].anchor)
        IN  live' = [live EXCEPT ![m] =
                IF ~ok \/ t = NULL THEN [@ EXCEPT !.pc = "t_start"]
                ELSE IF AfterThreadFetch(threads[t].archived) = "return"
                THEN ThreadReturned(@, m, t)
                ELSE [@ EXCEPT !.pc = "t_unarch", !.thr = t]]
    /\ UNCHANGED <<config, channels, present, feed, envId,
                   destinationChannels, ready, run, hist>>

\* existingThread.setArchived(false) completes; a throw falls through to
\* startThread
ThreadUnarchive(m) ==
    /\ live[m].pc = "t_unarch"
    /\ \E ok \in BOOLEAN :
        IF ok
        THEN /\ threads' = [threads EXCEPT ![live[m].thr].archived = FALSE]
             /\ live' = [live EXCEPT ![m] = ThreadReturned(@, m, live[m].thr)]
        ELSE /\ UNCHANGED threads
             /\ live' = [live EXCEPT ![m].pc = "t_start", ![m].thr = NULL]
    /\ UNCHANGED <<config, channels, present, feed, envId,
                   destinationChannels, ready, run, hist>>

\* latestEmbed.startThread completes; the platform keeps one thread per
\* message, so it throws when the message has one; the throw leaves
\* getOrCreateLatestThread and is caught by the strict-mode branch
ThreadStart(m) ==
    /\ live[m].pc = "t_start"
    /\ \E ok \in BOOLEAN :
        IF ok /\ ThreadOn(Msg(m).room, live[m].anchor) = NULL
        THEN /\ threads' = Append(threads,
                    [room |-> Msg(m).room, anchor |-> live[m].anchor,
                     archived |-> FALSE, posts |-> <<>>])
             /\ live' = [live EXCEPT ![m] = ThreadReturned(@, m, Len(threads) + 1)]
        ELSE /\ UNCHANGED threads
             /\ live' = [live EXCEPT ![m].pc = "done"]
    /\ UNCHANGED <<config, channels, present, feed, envId,
                   destinationChannels, ready, run, hist>>

\* thread.send(repost) completes; posting in a thread opens it
StrictRepostDone(m) ==
    /\ live[m].pc = "s_repost"
    /\ \E ok \in BOOLEAN :
        IF ok
        THEN /\ threads' = [threads EXCEPT ![live[m].thr].posts = Append(@, m),
                                           ![live[m].thr].archived = FALSE]
             /\ live' = [live EXCEPT ![m].pc = "s_notice"]
        ELSE /\ UNCHANGED threads
             /\ live' = [live EXCEPT ![m].pc = "done"]
    /\ UNCHANGED <<config, channels, present, feed, envId,
                   destinationChannels, ready, run, hist>>

\* the redirect notice
StrictNoticeDone(m) ==
    /\ live[m].pc = "s_notice"
    /\ \E ok \in BOOLEAN :
        feed' = IF ok
                THEN [feed EXCEPT ![Msg(m).room] = Append(@, Notice(m, <<>>))]
                ELSE feed
    /\ live' = [live EXCEPT ![m].pc = "done"]
    /\ UNCHANGED <<config, channels, present, threads, envId,
                   destinationChannels, ready, run, hist>>

\* the "no links have been posted yet" notice
StrictWarnDone(m) ==
    /\ live[m].pc = "s_warn"
    /\ \E ok \in BOOLEAN :
        feed' = IF ok
                THEN [feed EXCEPT ![Msg(m).room] = Append(@, Notice(m, <<>>))]
                ELSE feed
    /\ live' = [live EXCEPT ![m].pc = "done"]
    /\ UNCHANGED <<config, channels, present, threads, envId,
                   destinationChannels, ready, run, hist>>

\* the platform archives a thread after its inactivity window (autoArchiveDuration)
PlatformArchive(t) ==
    /\ ~threads[t].archived
    /\ threads' = [threads EXCEPT ![t].archived = TRUE]
    /\ UNCHANGED <<config, channels, present, feed, envId, destinationChannels,
                   ready, live, run, hist>>

StrictNext ==
    \/ \E m \in DOMAIN live : StrictDeleteDone(m)
    \/ \E m \in DOMAIN live : ThreadFetchRecent(m)
    \/ \E m \in DOMAIN live : ThreadGet(m)
    \/ \E m \in DOMAIN live : ThreadUnarchive(m)
    \/ \E m \in DOMAIN live : ThreadStart(m)
    \/ \E m \in DOMAIN live : StrictRepostDone(m)
    \/ \E m \in DOMAIN live : StrictNoticeDone(m)
    \/ \E m \in DOMAIN live : StrictWarnDone(m)
    \/ \E t \in 1..Len(threads) : PlatformArchive(t)

\* ------------------------------------------------------------ process restart
\* The process is stopped and started again: the module-level state is built
\* anew from .env.local, the platform keeps its rooms and messages, and the
\* handlers that were running are gone.
Restart ==
    /\ run < MaxRuns
    /\ ready.pc \in {"done", "crashed"}
    /\ run' = run + 1
    /\ envId' = config.env
    /\ destinationChannels' = [c \in Categories |-> NULL]
    /\ ready' = ReadyInit
    /\ live' = [m \in DOMAIN live |->
                    IF live[m].pc = "new" THEN live[m]
                    ELSE [LiveInit EXCEPT !.pc = "dead"]]
    /\ hist' = [HistInit EXCEPT !.deleted = hist.deleted,
                                !.undeleted = hist.undeleted,
                                !.ensured = hist.ensured,
                                !.created = hist.created]
    /\ UNCHANGED <<config, channels, present, feed, threads>>

\* ------------------------------------------------------------ specifications
\* One guild; its destination rooms exist or not, with or without configured
\* ids; an ordinary room with history and a private room; live messages in
\* the ordinary and the private room.
Init ==
    \E env \in {NoEnv, [NoEnv EXCEPT !["youtube"] = 12],
                [NoEnv EXCEPT !["steam"] = 93]} :
    \E dest \in {{}, {12, 13, 14}} :
        /\ env["youtube"] # NULL => dest # {}
        /\ InitWith(<<1>>, env, BaseRooms({1}) \cup dest, {1, 2, 3, 5}, {7, 10},
                    <<>>, <<>>)

Next == ReadyNext \/ RouterNext \/ PrivateNext

Spec == Init /\ [][Next]_vars

\* ----------------------------------------------------------------- properties
AllItems == UNION {{<<r, i>> : i \in 1..Len(feed[r])} : r \in RoomIds}
Item(p) == feed[p[1]][p[2]]
\* the Summary Records that exist, as <<room, index>>
Embeds == {p \in AllItems : Item(p).kind = "embed"}
EmbedsOf(m) == {p \in Embeds : Item(p).src = m}

\* a delete of m by this path has completed in this run (it succeeded or threw)
DeleteIssued(m, by) ==
    <<m, by, run>> \in hist.deleted \/ <<m, by, run>> \in hist.undeleted

\* the scanner is at message m, inside its send loop or at its delete
ScannerAt(m, pcs) ==
    /\ ready.pc \in pcs
    /\ ready.idx \in 1..Len(ready.page)
    /\ ready.page[ready.idx] = m

OneCategoryPerUrl ==
    \A p \in Embeds : \A q \in Embeds :
        (/\ Item(p).src = Item(q).src
         /\ \E i \in 1..Len(Item(p).urls) : \E j \in 1..Len(Item(q).urls) :
                Item(p).urls[i] = Item(q).urls[j])
        => Item(p).category = Item(q).category

\* C2 as stated: never the original together with a Summary Record derived
\* from it, and no URL in two categories' rooms
OriginalOrRecordNeverBoth ==
    /\ \A m \in MsgIds : ~(m \in present /\ EmbedsOf(m) # {})
    /\ OneCategoryPerUrl

\* a handling of m is between its first send and its delete
RelocationInFlight(m) ==
    \/ m \in DOMAIN live /\ live[m].pc \in {"send", "delete"}
    \/ ScannerAt(m, {"bf_send", "bf_delete"})
\* a handling of m ended in a send or a delete that threw
RelocationFailed(m) ==
    \/ m \in DOMAIN live /\ live[m].pc = "failed"
    \/ ScannerAt(m, {"crashed"}) /\ ready.dest # NULL
    \/ \E d \in hist.undeleted : d[1] = m

\* C2 amended: the original exists together with a Summary Record derived
\* from it only while a handling of it is between its first send and its
\* delete, or after a send or the delete of a handling threw; and no URL is
\* carried in two categories' rooms.
OriginalAndRecordOnlyInFlight ==
    /\ \A m \in MsgIds :
          (m \in present /\ EmbedsOf(m) # {}) =>
              (RelocationInFlight(m) \/ RelocationFailed(m))
    /\ OneCategoryPerUrl

\* C2 witness: a message relocated into two rooms is gone and nothing about
\* it is in flight or failed
OriginalAndRecordWitness ==
    \E m \in MsgIds :
        /\ m \notin present
        /\ Cardinality({Item(p).category : p \in EmbedsOf(m)}) = 2
        /\ ~RelocationInFlight(m) /\ ~RelocationFailed(m)

\* C5: a message is relocated at most once per category, whatever the
\* interleaving of its live handler with the scan of its room
RelocatedOncePerCategory ==
    \A m \in MsgIds : \A c \in Categories :
        Cardinality({p \in EmbedsOf(m) : Item(p).category = c}) <= 1

\* C6: every message is handled, and every page is scanned, with all three
\* bindings of its guild resolved
RegistryResolvedFirst ==
    /\ \A m \in DOMAIN live : live[m].resolved
    /\ ready.pc \in {"bf_fetch", "bf_send", "bf_delete", "bf_sleep"} =>
          \A c \in Categories : hist.resolved[Head(ready.guilds)][c] # NULL

\* C9: the scanner sends no Summary Record for and issues no delete of a
\* message older than the cutoff, every message it got to in a page is
\* newer than the cutoff, and it asks for a further page of a room only when
\* the oldest message it saw there is not older than the cutoff.
BackfillRespectsCutoff ==
    /\ \A p \in Embeds : Item(p).by = "backfill" => ~(CreatedAt(Item(p).src) < BACKFILL_AFTER)
    /\ \A d \in hist.deleted \cup hist.undeleted :
          d[2] = "backfill" => ~(CreatedAt(d[1]) < BACKFILL_AFTER)
    /\ ready.pc \in {"bf_send", "bf_delete"} =>
          \A i \in 1..ready.idx : ~(CreatedAt(ready.page[i]) < BACKFILL_AFTER)
    /\ (ready.pc = "bf_sleep" /\ ~ready.reached) =>
          \A i \in 1..Len(ready.page) : ~(CreatedAt(ready.page[i]) < BACKFILL_AFTER)
    /\ (ready.pc = "bf_fetch" /\ ready.lastId # NULL) =>
          ~(CreatedAt(ready.lastId) < BACKFILL_AFTER)

\* C9 witness: the scan met a message older than the cutoff after it had
\* relocated a newer one, and the old message is untouched
BackfillCutoffWitness ==
    /\ ready.pc = "bf_sleep" /\ ready.reached
    /\ \E p \in Embeds : Item(p).by = "backfill"
    /\ \E m \in present : CreatedAt(m) < BACKFILL_AFTER /\ EmbedsOf(m) = {}

\* ------------------------------------------------- the other specifications
\* Strict mode.  Either the YouTube room is created by this process, two
\* messages with YouTube links wait in the ordinary room for the scanner, and
\* users post a YouTube link in the YouTube room and plain text in the games
\* room; or the YouTube room exists with a Summary Record, its archived
\* thread and two notices left by an earlier process, and two users post in
\* it, one a YouTube link and one plain text.
PriorRecord ==
    [kind |-> "embed", category |-> "youtube", urls |-> <<YT1>>, dests |-> <<>>,
     src |-> 1, by |-> "live", run |-> 0]
PriorThread == [room |-> 12, anchor |-> 1, archived |-> TRUE, posts |-> <<>>]
\* a notice of the earlier process, which ended before the notice's timer fired
PriorNotice ==
    [kind |-> "notice", category |-> "none", urls |-> <<>>, dests |-> <<>>,
     src |-> 1, by |-> "live", run |-> 0]

InitStrict ==
    \/ InitWith(<<1>>, NoEnv, BaseRooms({1}) \cup {13, 14}, {2, 4}, {8, 15},
                <<>>, <<>>)
    \/ InitWith(<<1>>, [NoEnv EXCEPT !["youtube"] = 12],
                BaseRooms({1}) \cup DestRooms({1}), {4}, {8, 9},
                [r \in {12} |-> <<PriorRecord, PriorNotice, PriorNotice>>],
                <<PriorThread>>)

NextStrict == ReadyNext \/ (\E m \in DOMAIN live : MessageCreate(m)) \/ StrictNext

SpecStrict == InitStrict /\ [][NextStrict]_vars

\* Two guilds: the ready handler sets up and scans one after the other.
InitGuilds ==
    \E dest \in {{}, {12, 13, 14}} :
        InitWith(<<1, 2>>, NoEnv, BaseRooms({1, 2}) \cup dest, {2, 6}, {7},
                 <<>>, <<>>)

NextGuilds == ReadyNext \/ RouterNext

SpecGuilds == InitGuilds /\ [][NextGuilds]_vars

\* The messages the live handler ignores: next to a message with links in
\* the ordinary room, the gateway delivers a message posted in a thread, a
\* direct message and another bot's message, all three with a link.
InitIgnore ==
    \E dest \in {{}, {12, 13, 14}} :
        InitWith(<<1>>, NoEnv, BaseRooms({1}) \cup dest, {4}, {7, 11, 12, 13},
                 <<>>, <<>>)

NextIgnore == ReadyNext \/ RouterNext

SpecIgnore == InitIgnore /\ [][NextIgnore]_vars

\* The process is run more than once over the same rooms; the YouTube room
\* exists and is configured by id, the other two rooms do not exist yet.
InitRerun ==
    InitWith(<<1>>, [NoEnv EXCEPT !["youtube"] = 12], BaseRooms({1}) \cup {12},
             {1, 2, 3, 4}, {7}, <<>>, <<>>)

NextRerun == ReadyNext \/ RouterNext \/ Restart

SpecRerun == InitRerun /\ [][NextRerun]_vars

\* C3: a message all of whose links are already destined for the room it
\* was posted in is left alone: its handler returns before any platform call
\* and the message stays
HomeLinksUntouched ==
    \A m \in DOMAIN live :
        live[m].home => (live[m].pc = "ignored" /\ m \in present)

\* C4: once ensureChannel has returned a room for (guild, category), the
\* binding stays that room and that room stays a destination room, and every
\* Summary Record is in a room of the guild its message was posted in
BindingsStayPerGuild ==
    /\ \A g \in 1..2 : \A c \in Categories :
          hist.resolved[g][c] # NULL =>
              /\ destinationChannels[c] = hist.resolved[g][c]
              /\ isDestinationChannel(hist.resolved[g][c])
    /\ \A p \in Embeds :
          Item(p).run = run => GuildOf(p[1]) = GuildOf(Msg(Item(p).src).room)

\* the handlers to which getOrCreateLatestThread has returned a thread
Holders == {m \in DOMAIN live : live[m].thr # NULL /\ live[m].pc # "t_unarch"}

\* C7: no message has two threads, and no call returns a thread whose anchor
\* is not the latest Summary Record of the room when it returns
OneActiveThread ==
    /\ \A t \in 1..Len(threads) : \A u \in 1..Len(threads) :
          (threads[t].room = threads[u].room /\ threads[t].anchor = threads[u].anchor)
              => t = u
    /\ \A m \in Holders : ~live[m].stale

BackfillOnce ==
    /\ ~hist.repaged
    /\ LET sent == {p \in Embeds : Item(p).by = "backfill"}
       IN  /\ \A p \in sent : \A q \in sent :
                  (/\ Item(p).src = Item(q).src
                   /\ Item(p).category = Item(q).category
                   /\ Item(p).run = Item(q).run) => p = q
           /\ \A p \in sent : \A d \in hist.deleted :
                  d[1] = Item(p).src => d[3] >= Item(p).run

\* C10 witness: a second run has scanned two pages of a room in which the
\* first run deleted a message it had relocated
BackfillOnceWitness ==
    /\ run = 2
    /\ ready.pc = "bf_sleep" /\ ready.lastId # NULL /\ Cardinality(hist.paged) > PageLimit
    /\ \E d \in hist.deleted : d[2] = "backfill" /\ d[3] = 1

\* C11: a failed fetch, send or delete during backfill is skipped and the
\* scan goes on: the ready handler never ends inside the scan of a room, with
\* that room's remaining messages, the remaining rooms and the remaining
\* guilds left unscanned
BackfillFailureSkipsItem ==
    ready.pc = "crashed" => (ready.chans = <<>> /\ ready.dest = NULL)

\* the category groups of a message, in order of first appearance
Groups(m) == GroupUrls(MatchUrls(Msg(m).content))
\* the Summary Records the live handler of this run has sent for m
LiveRecords(m) == {p \in EmbedsOf(m) : Item(p).by = "live" /\ Item(p).run = run}
\* the notices this run has posted about m
NoticesOf(m) ==
    {p \in AllItems : Item(p).kind = "notice" /\ Item(p).src = m /\ Item(p).run = run}
\* a message with links posted at top level in a room that is neither a
\* destination room nor private
InOrdinaryRoom(m) ==
    /\ ~Msg(m).bot /\ Msg(m).where = "room"
    /\ Msg(m).room \notin DestRooms({1, 2})
    /\ ~IsPrivateName(RoomName(Msg(m).room))
    /\ MatchUrls(Msg(m).content) # <<>>

\* C12: for a message of an ordinary room delivered with every binding
\* resolved, the live handler sends one Summary Record per category group, to
\* the category's destination room and with the group's URLs in their order
\* of appearance, and never more; all k records are there when it issues the
\* delete; the notice is posted only after the delete succeeded, there is one
\* notice at most, and it names the k destinations in the order of the groups.
KRecordsDeleteOneNotice ==
    \A m \in DOMAIN live :
        (live[m].resolved /\ InOrdinaryRoom(m)) =>
            LET dst(c) == hist.resolved[GuildOf(Msg(m).room)][c]
                k      == Len(Groups(m))
            IN  /\ Cardinality(LiveRecords(m)) <= k
                /\ \A p \in LiveRecords(m) : \E i \in 1..k :
                      /\ Item(p).category = Groups(m)[i].category
                      /\ Item(p).urls = Groups(m)[i].urls
                      /\ p[1] = dst(Groups(m)[i].category)
                      /\ p[1] # Msg(m).room
                /\ (live[m].pc \in {"delete", "notice"} \/ DeleteIssued(m, "live")) =>
                      /\ Cardinality(LiveRecords(m)) = k
                      /\ \A i \in 1..k : \E p \in LiveRecords(m) :
                            Item(p).category = Groups(m)[i].category
                /\ live[m].pc = "notice" =>
                      (<<m, "live", run>> \in hist.deleted /\ NoticesOf(m) = {})
                /\ NoticesOf(m) # {} =>
                      /\ <<m, "live", run>> \in hist.deleted
                      /\ live[m].pc = "done"
                      /\ Cardinality(NoticesOf(m)) = 1
                      /\ \A p \in NoticesOf(m) :
                            /\ p[1] = Msg(m).room
                            /\ Item(p).dests =
                                  [i \in 1..k |-> dst(Groups(m)[i].category)]

\* C12 witness: a message with two Steam links and one other link was
\* relocated as two records, the Steam record carrying both links in order,
\* then deleted, and its notice names the two rooms
KRecordsWitness ==
    \E m \in DOMAIN live :
        /\ live[m].resolved /\ InOrdinaryRoom(m) /\ live[m].pc = "done"
        /\ Len(Groups(m)) = 2 /\ Cardinality(LiveRecords(m)) = 2
        /\ \E p \in LiveRecords(m) : Item(p).urls = <<ST2, ST1>> /\ p[1] = 13
        /\ m \notin present
        /\ \E p \in NoticesOf(m) : Item(p).dests = <<13, 14>>

\* a message of a user posted at top level in a destination room
InDestinationRoom(m) ==
    ~Msg(m).bot /\ Msg(m).where = "room" /\ Msg(m).room \in DestRooms({1, 2})
\* the threads in which the captured content of m was reposted
RepostedIn(m) ==
    {t \in 1..Len(threads) : \E i \in 1..Len(threads[t].posts) : threads[t].posts[i] = m}

\* the order of the strict-mode branch once it is taken: the consolidator is
\* invoked only after the delete succeeded, the content is reposted only in
\* the thread that was returned, the redirect notice follows the repost, and
\* when no thread was returned nothing is reposted and one notice is posted
StrictBranchOrder(m) ==
    /\ live[m].pc \in {"t_fetch", "t_get", "t_unarch", "t_start", "s_repost",
                       "s_notice", "s_warn"} => <<m, "strict", run>> \in hist.deleted
    /\ RepostedIn(m) # {} =>
          (live[m].thr # NULL /\ RepostedIn(m) = {live[m].thr}
           /\ live[m].pc \in {"s_notice", "done"})
    /\ live[m].pc = "s_notice" => (RepostedIn(m) # {} /\ NoticesOf(m) = {})
    /\ live[m].pc = "s_warn" =>
          (live[m].thr = NULL /\ RepostedIn(m) = {} /\ NoticesOf(m) = {})
    /\ NoticesOf(m) # {} =>
          /\ live[m].pc = "done" /\ Cardinality(NoticesOf(m)) = 1
          /\ <<m, "strict", run>> \in hist.deleted
          /\ (live[m].thr # NULL) = (RepostedIn(m) # {})
    /\ EmbedsOf(m) = {}

\* C13: every message of a user posted at top level in a destination room is
\* taken by the strict-mode branch (its handler does not return without
\* deleting it), and the branch keeps its order: delete, then the
\* consolidator, then the repost in the returned thread and one redirect
\* notice, or one notice and no repost when no thread was returned
StrictModeSequence ==
    \A m \in DOMAIN live :
        InDestinationRoom(m) =>
            /\ live[m].pc # "ignored"
            /\ StrictBranchOrder(m)

\* a message posted at top level in a room whose name carries the private
\* marker and that is not a destination room
InPrivateRoom(m) ==
    /\ Msg(m).where = "room"
    /\ IsPrivateName(RoomName(Msg(m).room))
    /\ Msg(m).room \notin DestRooms({1, 2})

\* C14: no Summary Record is ever sent for a message of a private room, and
\* neither the scanner nor the routing path fetches or deletes one; the
\* scanner is never inside a private room; the live handler of a message
\* with a link in a private room only deletes it and then posts one warning
\* in that room, the warning following the successful delete.
PrivateRoomPolicy ==
    /\ \A m \in MsgIds :
          InPrivateRoom(m) =>
              /\ EmbedsOf(m) = {}
              /\ m \notin hist.paged
              /\ \A d \in hist.deleted \cup hist.undeleted :
                    d[1] = m => d[2] = "private"
    /\ ready.pc \in {"bf_fetch", "bf_send", "bf_delete", "bf_sleep"} =>
          ~IsPrivateName(RoomName(Head(ready.chans)))
    /\ \A m \in DOMAIN live :
          (InPrivateRoom(m) /\ ~Msg(m).bot /\ MatchUrls(Msg(m).content) # <<>>) =>
              /\ live[m].pc \in {"new", "p_delete", "p_warn", "done", "dead"}
              /\ live[m].pc = "p_warn" =>
                    (<<m, "private", run>> \in hist.deleted /\ NoticesOf(m) = {})
              /\ live[m].pc = "done" => DeleteIssued(m, "private")
              /\ NoticesOf(m) # {} =>
                    /\ Cardinality(NoticesOf(m)) = 1
                    /\ \A p \in NoticesOf(m) : p[1] = Msg(m).room
                    /\ <<m, "private", run>> \in hist.deleted
                    /\ live[m].pc = "done"

\* C14 witness: the link posted in the private room was deleted and warned
\* about, and the scan of the guild has ended with relocations from the
\* ordinary room while the older link in the private room is still there
PrivateRoomWitness ==
    /\ \E m \in DOMAIN live :
          /\ InPrivateRoom(m) /\ m \notin present /\ NoticesOf(m) # {}
    /\ ready.pc = "done"
    /\ \E p \in Embeds : Item(p).by = "backfill"
    /\ \E m \in present :
          InPrivateRoom(m) /\ MatchUrls(Msg(m).content) # <<>> /\ m \notin DOMAIN live

\* a message the live handler has to ignore: a bot's, a direct message, or
\* one posted inside a thread
MustBeIgnored(m) == Msg(m).bot \/ Msg(m).where = "dm" \/ Msg(m).where = "thread"

\* C15: the handler of a bot's message, of a direct message or of a message
\* inside a thread returns before any platform call: no Summary Record and no
\* notice is derived from the message, no delete of it is issued by anyone,
\* it is in no thread as a repost and no thread was returned for it; and a
\* message inside a thread, once posted, stays where it is.
IgnoredMessagesUntouched ==
    /\ \A m \in DOMAIN live :
          MustBeIgnored(m) =>
              /\ live[m].pc \in {"new", "ignored", "dead"}
              /\ live[m].thr = NULL /\ live[m].routed = <<>>
              /\ EmbedsOf(m) = {}
              /\ NoticesOf(m) = {}
              /\ RepostedIn(m) = {}
              /\ \A d \in hist.deleted \cup hist.undeleted : d[1] # m
    /\ \A m \in MsgIds :
          Msg(m).where = "thread" =>
              /\ EmbedsOf(m) = {}
              /\ m \notin hist.paged
              /\ \A d \in hist.deleted \cup hist.undeleted : d[1] # m
              /\ (m \in DOMAIN live /\ live[m].pc # "new") => m \in present

\* C15 witness: the three messages were delivered and ignored, the one in the
\* thread is still there, while the message with links of the ordinary room
\* was relocated and deleted by its handler
IgnoredMessagesWitness ==
    /\ \A m \in DOMAIN live : MustBeIgnored(m) => live[m].pc = "ignored"
    /\ \E m \in DOMAIN live : Msg(m).where = "thread" /\ m \in present
    /\ \E m \in DOMAIN live : Msg(m).where = "dm"
    /\ \E m \in DOMAIN live : Msg(m).bot
    /\ \E d \in hist.deleted : d[2] = "live"
    /\ ready.pc = "done"

\* C16: ensureChannel takes the configured id when it is a room of the guild,
\* else the room of the preferred name, else it creates the room: it is about
\* to create only when the id does not resolve and no room of the guild has
\* the name; every call returned the room its first applicable step gives;
\* two calls for the same guild and category, in this or in a later run of
\* the process, returned the same room, the later one without creating; and
\* no room was created twice.
EnsureResolvesInOrder ==
    /\ ready.pc = "create" =>
          LET g == Head(ready.guilds)
          IN  /\ envId[ready.cat] = NULL \/ envId[ready.cat] \notin GuildChannels(g)
              /\ \A ch \in GuildChannels(g) : RoomName(ch) # ChannelName(ready.cat)
    /\ \A e \in hist.ensured :
          /\ e.room \in channels /\ GuildOf(e.room) = e.guild
          /\ e.byId # NULL => (e.how = "id" /\ e.room = e.byId)
          /\ (e.byId = NULL /\ e.byName # NULL) =>
                (e.how = "name" /\ e.room = e.byName)
          /\ (e.byId = NULL /\ e.byName = NULL) =>
                (e.how = "create" /\ RoomName(e.room) = ChannelName(e.category))
    /\ \A e \in hist.ensured : \A f \in hist.ensured :
          (e.guild = f.guild /\ e.category = f.category /\ e.run <= f.run) =>
              /\ e.room = f.room
              /\ e.run < f.run => f.how # "create"
    /\ \A r \in RoomIds : hist.created[r] <= 1

\* C16 witness: in the second run the three categories were resolved again,
\* one by its configured id and the others by the name of the room the first
\* run had created
EnsureResolvesWitness ==
    /\ run = 2
    /\ \E e \in hist.ensured : e.run = 2 /\ e.how = "id"
    /\ \E e \in hist.ensured : \E f \in hist.ensured :
          /\ e.run = 1 /\ e.how = "create" /\ f.run = 2 /\ f.how = "name"
          /\ e.category = f.category /\ e.room = f.room
    /\ \A c \in Categories : \E f \in hist.ensured : f.run = 2 /\ f.category = c

\* C17: the lookup returns null only when the room held no Summary Record
\* when it looked, and a thread it returns is anchored to the most recent
\* Summary Record the room holds when it is returned
NoneOnlyWithoutRecord ==
    /\ \A m \in DOMAIN live : live[m].pc = "s_warn" => live[m].seen = 0
    /\ \A m \in DOMAIN live :
          (live[m].pc = "s_repost" /\ live[m].thr # NULL) => ~live[m].stale

\* the scanner is inside the scan of a room
InScan(r) == r.pc \in {"bf_fetch", "bf_send", "bf_delete", "bf_sleep"}

\* C18: within a room every new cursor is older than the one before; the
\* scan of a room ends only at a fetch (the page was empty or the fetch
\* failed) or after a page on which a message older than the cutoff was met;
\* and the backfill of a guild ends only when no room is left to scan
ScanEndsOnlyAsStated ==
    [][ /\ (/\ InScan(ready) /\ InScan(ready') /\ ready'.chans = ready.chans
            /\ ready.lastId # NULL /\ ready'.lastId # ready.lastId)
               => ready'.lastId < ready.lastId
        /\ (InScan(ready) /\ (~InScan(ready') \/ ready'.chans # ready.chans))
               => \/ ready.pc = "bf_fetch"
                  \/ ready.pc = "bf_sleep" /\ ready.reached
        /\ (InScan(ready) /\ ~InScan(ready'))
               => SkipPrivate(Tail(ready.chans)) = <<>>
      ]_vars

\* C19: the room being scanned is never a destination room (by its role, by
\* the recorded ids, by the bindings); no message of a destination room is on
\* a page, is deleted by the scanner or is the source of a record of the
\* scanner; and every record of the scanner is in a destination room that is
\* not the room its message was scanned in.
ScannerAvoidsDestinations ==
    /\ InScan(ready) =>
          LET channel == Head(ready.chans)
          IN  /\ channel \notin DestRooms({1, 2})
              /\ ~isDestinationChannel(channel)
              /\ \A c \in Categories : destinationChannels[c] # channel
              /\ ready.pc = "bf_send" => ready.dest # channel
    /\ \A m \in hist.paged : Msg(m).room \notin DestRooms({1, 2})
    /\ \A d \in hist.deleted \cup hist.undeleted :
          d[2] = "backfill" => Msg(d[1]).room \notin DestRooms({1, 2})
    /\ \A p \in Embeds :
          Item(p).by = "backfill" =>
              /\ Msg(Item(p).src).room \notin DestRooms({1, 2})
              /\ p[1] # Msg(Item(p).src).room
              /\ p[1] \in DestRooms({1, 2})

\* C19 witness: the scan has ended with relocations out of the ordinary
\* room, and a user's message with a link that was not removed from a
\* destination room is still there
ScannerAvoidsWitness ==
    /\ ready.pc = "done"
    /\ \E p \in Embeds : Item(p).by = "backfill" /\ Item(p).run = run
    /\ \E m \in present :
          /\ Msg(m).room \in DestRooms({1, 2})
          /\ MatchUrls(Msg(m).content) # <<>>
          /\ live[m].pc = "done"

\* C20: when the live handler or the scanner has deleted a message of an
\* ordinary room, every URL of the message is carried by a Summary Record
\* that the deleting path sent for it in the same run
DeletedOnlyWhenAllRelocated ==
    \A d \in hist.deleted :
        (d[2] \in {"live", "backfill"} /\ d[3] = run) =>
            LET urls == MatchUrls(Msg(d[1]).content)
            IN  \A i \in 1..Len(urls) :
                    \E p \in EmbedsOf(d[1]) :
                        /\ Item(p).by = d[2] /\ Item(p).run = d[3]
                        /\ \E j \in 1..Len(Item(p).urls) : Item(p).urls[j] = urls[i]

====
